---------------------------- MODULE Spec2Model ----------------------------
(***************************************************************************)
(* A model of TruthSeeker Plus (src/server.py): the /parse pattern         *)
(* extractor, the direct-fetch response classification and the /scan       *)
(* event generator with its browser session.                               *)
(*                                                                         *)
(* Strings are sequences of characters; a character is a one-element       *)
(* string, except the three named below.                                   *)
(***************************************************************************)
EXTENDS Integers, Sequences, FiniteSets, TLC

VARIABLES
    url,        \* /parse: the "url" field of the request body
    parseResp,  \* /parse: the response, NoResp before the request is served
    probeIn,    \* classification: the probe's inputs (response, auto_download, save outcome, i)
    probeOut,   \* classification: the probe's result, NoResp before it ran
    cfg,        \* /scan: the request's parameters
    host,       \* /scan: what the machine has: the playwright package, the Chromium binary
    pc,         \* /scan: where generate() stands
    events,     \* /scan: the events generate() has yielded, in order
    atYield,    \* /scan: generate() is suspended at a yield
    connected,  \* /scan: the client still reads the stream
    pw,         \* /scan: the sync_playwright() context: "off", "on", "stopped"
    browser,    \* /scan: the Chromium session: "none", "open", "closed"
    clicked,    \* /scan: local clicked of the age gate check
    polls,      \* /scan: iterations of the manual-clearance poll done
    gsel,       \* /scan: the selector the generic gate search stands at, 0 outside it
    clicks,     \* /scan: the clicks of the gate check that went through in the browser
    i,          \* /scan: loop index
    extIdx,     \* /scan: position in ext_list_to_scan
    found,      \* /scan: local found
    consecutive,\* /scan: local consecutive
    hit_this,   \* /scan: local hit_this
    resp,       \* /scan: local resp of the probe, NoResp outside the classification
    lastProbe,  \* /scan: how the last probe went so far
    skipped,    \* /scan: download selectors skipped after a failure, over the scan
    sleeps,     \* /scan: politeness delays taken
    scans,      \* downloads: the concurrent scans, each its parameters, loop index and save position
    files       \* downloads: the files of DOWNLOAD_DIR: name, body, the scan that wrote it

pvars == <<url, parseResp>>
cvars == <<probeIn, probeOut>>
svars == <<cfg, host, pc, events, atYield, connected, pw, browser, clicked, polls,
           gsel, clicks, i, extIdx, found, consecutive, hit_this, resp, lastProbe, skipped,
           sleeps>>
dvars == <<scans, files>>
vars == <<url, parseResp, probeIn, probeOut, cfg, host, pc, events, atYield, connected,
          pw, browser, clicked, polls, i, extIdx, found, consecutive, hit_this,
          lastProbe, sleeps, scans, files, gsel, resp, skipped, clicks>>

NoResp == [status |-> 0]

\* ------------------------------------------------------------ bounds
MaxUrlLen == 3

NoProbe == [raised |-> "none", hit |-> FALSE, via |-> "none", skips |-> 0]

\* No scan request is being served.
ScanIdle ==
    /\ cfg = [max_n |-> 0]
    /\ host = [playwright |-> FALSE, chromium |-> FALSE]
    /\ pc = "idle"
    /\ events = <<>>
    /\ atYield = FALSE
    /\ connected = FALSE
    /\ pw = "off"
    /\ browser = "none"
    /\ clicked = FALSE
    /\ polls = 0
    /\ gsel = 0
    /\ clicks = {}
    /\ i = 0
    /\ extIdx = 1
    /\ found = 0
    /\ consecutive = 0
    /\ hit_this = FALSE
    /\ resp = NoResp
    /\ lastProbe = NoProbe
    /\ skipped = 0
    /\ sleeps = 0

\* No concurrent downloads are being followed.
DownloadsIdle ==
    /\ scans = <<>>
    /\ files = {}

\* ------------------------------------------------------------ characters
NL == "NL"          \* line feed
SP == "SP"          \* space
ArabicThree == "U+0663"   \* ARABIC-INDIC DIGIT THREE, a Unicode decimal digit (category Nd)

AsciiDigits == {"0", "1", "2", "3", "4", "5", "6", "7", "8", "9"}

\* str.strip(): the characters Python treats as whitespace
IsSpace(c) == c \in {SP, NL}

\* the regex class \d of a str pattern: every Unicode decimal digit
IsDigit(c) == c \in AsciiDigits \cup {ArabicThree}

\* the regex class [^0-9]
IsNotAsciiDigit(c) == c \notin AsciiDigits

\* the regex atom . (no DOTALL flag): anything but a line feed
IsDot(c) == c # NL

\* the value int() gives a decimal digit
DigitVal(c) ==
    CASE c = "0" -> 0 [] c = "1" -> 1 [] c = "2" -> 2 [] c = "3" -> 3
      [] c = "4" -> 4 [] c = "5" -> 5 [] c = "6" -> 6 [] c = "7" -> 7
      [] c = "8" -> 8 [] c = "9" -> 9 [] c = ArabicThree -> 3

\* the character str() writes for a digit value
DigitChar(d) ==
    CASE d = 0 -> "0" [] d = 1 -> "1" [] d = 2 -> "2" [] d = 3 -> "3"
      [] d = 4 -> "4" [] d = 5 -> "5" [] d = 6 -> "6" [] d = 7 -> "7"
      [] d = 8 -> "8" [] d = 9 -> "9"

\* ------------------------------------------------------------ strings
RECURSIVE LStrip(_)
LStrip(s) == IF s # <<>> /\ IsSpace(Head(s)) THEN LStrip(Tail(s)) ELSE s

RECURSIVE RStrip(_)
RStrip(s) ==
    IF s # <<>> /\ IsSpace(s[Len(s)]) THEN RStrip(SubSeq(s, 1, Len(s) - 1)) ELSE s

\* str.strip()
Strip(s) == RStrip(LStrip(s))

\* int(s) for a run of decimal digits
RECURSIVE IntOf(_)
IntOf(s) ==
    IF s = <<>> THEN 0
    ELSE 10 * IntOf(SubSeq(s, 1, Len(s) - 1)) + DigitVal(s[Len(s)])

\* str(n) for n >= 0
RECURSIVE StrOf(_)
StrOf(n) == IF n < 10 THEN <<DigitChar(n)>> ELSE StrOf(n \div 10) \o <<DigitChar(n % 10)>>

\* str.zfill(w) of a string without sign
RECURSIVE ZFill(_, _)
ZFill(s, w) == IF Len(s) >= w THEN s ELSE ZFill(<<"0">> \o s, w)

\* str(n).zfill(w)
ZeroPad(n, w) == ZFill(StrOf(n), w)

\* ------------------------------------------------------------ /parse
\* The ways ^(.*?)(\d+)([^0-9]*)$ can split s: p characters of prefix, d of digits.
Splits(s) ==
    {pd \in (0 .. Len(s)) \X (1 .. Len(s)) :
        /\ pd[1] + pd[2] <= Len(s)
        /\ \A k \in 1 .. pd[1] : IsDot(s[k])
        /\ \A k \in pd[1] + 1 .. pd[1] + pd[2] : IsDigit(s[k])
        /\ \A k \in pd[1] + pd[2] + 1 .. Len(s) : IsNotAsciiDigit(s[k])}

\* re.search: the lazy prefix is the shortest that matches, the greedy digit
\* run the longest for that prefix.
MatchSplit(s) ==
    LET p == CHOOSE p \in {pd[1] : pd \in Splits(s)} :
                 \A q \in {pd[1] : pd \in Splits(s)} : p <= q
        d == CHOOSE d \in {pd[2] : pd \in {x \in Splits(s) : x[1] = p}} :
                 \A e \in {pd[2] : pd \in {x \in Splits(s) : x[1] = p}} : d >= e
    IN  <<p, d>>

ErrNoUrl == "No URL provided"
ErrNoNumber == "No numeric sequence found in the URL"

ParseBaseNum(num_str) == IntOf(num_str)

\* parse(): the response to a request whose body carries u
parse(u) ==
    LET s == Strip(u) IN
    IF s = <<>> THEN [status |-> 400, error |-> ErrNoUrl]
    ELSE IF Splits(s) = {} THEN [status |-> 400, error |-> ErrNoNumber]
    ELSE LET pd      == MatchSplit(s)
             num_str == SubSeq(s, pd[1] + 1, pd[1] + pd[2])
         IN  [status    |-> 200,
              prefix    |-> SubSeq(s, 1, pd[1]),
              num_width |-> Len(num_str),
              base_num  |-> ParseBaseNum(num_str),
              next_num  |-> ParseBaseNum(num_str) + 1,
              base_url  |-> <<>>,
              suffix    |-> SubSeq(s, pd[1] + pd[2] + 1, Len(s))]

\* ------------------------------------------------------------ direct fetch
HTML_CTYPES ==
    { <<"t","e","x","t","/","h","t","m","l">>,
      <<"t","e","x","t","/","p","l","a","i","n">>,
      <<"t","e","x","t","/","x","m","l">>,
      <<"a","p","p","l","i","c","a","t","i","o","n","/","x","h","t","m","l","+","x","m","l">> }

SizeFloor == 10000
DebugLimit == 3

\* str.lower(), on the letters the header values below are written with
LowerChar(c) ==
    CASE c = "T" -> "t" [] c = "E" -> "e" [] c = "X" -> "x" [] c = "H" -> "h"
      [] c = "M" -> "m" [] c = "L" -> "l" [] OTHER -> c

Lower(s) == [k \in 1 .. Len(s) |-> LowerChar(s[k])]

\* s.split(";")[0]
RECURSIVE BeforeSemicolon(_)
BeforeSemicolon(s) ==
    IF s = <<>> \/ Head(s) = ";" THEN <<>> ELSE <<Head(s)>> \o BeforeSemicolon(Tail(s))

\* headers.get("content-type", "").lower().split(";")[0].strip()
ContentType(headers) == Strip(BeforeSemicolon(Lower(headers.ct)))

\* int(cl) raises ValueError unless cl, stripped, is a run of decimal digits
IntOk(s) == Strip(s) # <<>> /\ \A k \in 1 .. Len(Strip(s)) : IsDigit(Strip(s)[k])

Log(m) == [type |-> "log", msg |-> m]

MsgDebug == "status/type/size"
MsgSkipHtml == "Skipped: HTML content"
MsgSkipSmall == "Skipped: File too small"
MsgSaved == "File saved"
MsgBlocked == "Blocked (403)"
MsgRateLimited == "Rate limited (429)"
MsgReqFailure == "Request failure"

DebugLog(idx, m) == IF idx < DebugLimit THEN <<Log(m)>> ELSE <<>>

\* Whether the size check lets the response through; int(cl) may raise.
SizeCheck(cl) ==
    IF ~cl.present THEN "pass"
    ELSE IF ~IntOk(cl.value) THEN "raise"
    ELSE IF IntOf(Strip(cl.value)) < SizeFloor THEN "small" ELSE "pass"

\* What a probe does once the response passed the checks: the body is
\* written to disk first when auto_download is set, then the hit is counted.
AcceptResponse(idx, auto_download, save_ok) ==
    IF auto_download /\ ~save_ok
    THEN [hit |-> FALSE, raised |-> TRUE, logs |-> DebugLog(idx, MsgDebug) \o DebugLog(idx, MsgReqFailure)]
    ELSE [hit |-> TRUE, raised |-> FALSE,
          logs |-> DebugLog(idx, MsgDebug) \o (IF auto_download THEN <<Log(MsgSaved)>> ELSE <<>>)]

\* The API-mode branch of the probe with its except clause: r is the
\* response of page.request.get, or a transport failure.
DirectProbe(r, idx, auto_download, save_ok) ==
    IF r.kind = "failure"
    THEN [hit |-> FALSE, raised |-> TRUE, logs |-> DebugLog(idx, MsgReqFailure)]
    ELSE IF r.status \in {200, 206}
    THEN IF ContentType(r) \in HTML_CTYPES
         THEN [hit |-> FALSE, raised |-> FALSE,
               logs |-> DebugLog(idx, MsgDebug) \o DebugLog(idx, MsgSkipHtml)]
         ELSE CASE SizeCheck(r.cl) = "raise" ->
                     [hit |-> FALSE, raised |-> TRUE,
                      logs |-> DebugLog(idx, MsgDebug) \o DebugLog(idx, MsgReqFailure)]
                [] SizeCheck(r.cl) = "small" ->
                     [hit |-> FALSE, raised |-> FALSE,
                      logs |-> DebugLog(idx, MsgDebug) \o DebugLog(idx, MsgSkipSmall)]
                [] SizeCheck(r.cl) = "pass" -> AcceptResponse(idx, auto_download, save_ok)
    ELSE IF r.status = 403
    THEN [hit |-> FALSE, raised |-> FALSE, logs |-> DebugLog(idx, MsgDebug) \o <<Log(MsgBlocked)>>]
    ELSE IF r.status = 429
    THEN [hit |-> FALSE, raised |-> FALSE, logs |-> DebugLog(idx, MsgDebug) \o <<Log(MsgRateLimited)>>]
    ELSE [hit |-> FALSE, raised |-> FALSE, logs |-> DebugLog(idx, MsgDebug)]

\* ---- the responses the classification is checked on
CtTextHtml == <<"t","e","x","t","/","h","t","m","l">>
CtHtmlUpperParam == <<"T","E","X","T","/","H","T","M","L",SP,";","x">>
CtXhtml == <<"a","p","p","l","i","c","a","t","i","o","n","/","x","h","t","m","l","+","x","m","l">>
CtVideoMp4 == <<"v","i","d","e","o","/","m","p","4">>
CtHeaders == {<<>>, CtTextHtml, CtHtmlUpperParam, CtXhtml, CtVideoMp4, <<"t","e","x","t","/","x","m","l">>}

ClAbsent == [present |-> FALSE, value |-> <<>>]
ClHeaders ==
    {ClAbsent} \cup
    {[present |-> TRUE, value |-> v] :
        v \in { <<"9","9","9","9">>, <<"1","0","0","0","0">>, <<"0">>, <<"x">>, <<>> }}

Statuses == {200, 206, 204, 403, 429, 404}

TransportFailure == [kind |-> "failure"]

Responses ==
    {TransportFailure} \cup
    [kind : {"response"}, status : Statuses, ct : CtHeaders, cl : ClHeaders]

UrlChars == {"a", "0", "7", ArabicThree, NL, SP}

Urls == UNION {[1 .. n -> UrlChars] : n \in 0 .. MaxUrlLen}

InitParse ==
    /\ url \in Urls
    /\ parseResp = NoResp
    /\ probeIn = NoResp
    /\ probeOut = NoResp
    /\ ScanIdle
    /\ DownloadsIdle

ParseRequest ==
    /\ parseResp = NoResp
    /\ parseResp' = parse(url)
    /\ UNCHANGED <<url, cvars, svars, dvars>>

NextParse == ParseRequest

SpecParse == InitParse /\ [][NextParse]_vars

\* ------------------------------------------------------------ /scan
\* bounds of the scan requests explored
MaxN == 4
MaxMis == 4
MaxNSetup == 1
MaxSelectorRaises == 1

NumSelectors == 9
NumGateSelectors == 6
GatePollMax == 20

Ext0 == <<>>
ExtA == <<".", "m">>
ExtB == <<".", "j">>

\* float(): a number (whole numbers stand for the floats) or float("nan")
Num(v) == [nan |-> FALSE, v |-> v]
NaN == [nan |-> TRUE, v |-> 0]

\* the values of delay_min and delay_max that requests are explored with:
\* a negative length, the lengths up to MaxDelay, and NaN
MaxDelay == 1
DelayValues == {Num(v) : v \in -1 .. MaxDelay} \cup {NaN}

AllPresent == [playwright |-> TRUE, chromium |-> TRUE]
Hosts == [playwright : BOOLEAN, chromium : BOOLEAN]

\* Requests that skip the gate check, with one extension (exts is [""] when
\* the request names none) or two, on a machine that has the browser; the
\* longest scans do not save the files, the scans with two extensions are
\* shorter and have a limit of one or two misses, and the click-mode scans
\* stop at the first miss or at the largest limit.
LoopConfigs ==
    {c \in [base_url : {<<"h">>}, prefix : {<<"p">>}, num_width : {1}, base_num : {9},
            start_num : {9}, max_n : 0 .. MaxN, max_mis : 0 .. MaxMis,
            click_mode : BOOLEAN, auto_download : BOOLEAN,
            exts : {<<Ext0>>, <<ExtA>>, <<ExtA, ExtB>>},
            cookie : BOOLEAN, doj : {FALSE},
            delay_min : {Num(0)}, delay_max : {Num(0)}] :
        /\ c.cookie = ~c.click_mode
        /\ Len(c.exts) > 1 =>
             c.max_n + 2 <= MaxN /\ c.max_mis \in {1, 2} /\ ~c.auto_download
        /\ c.auto_download => c.max_n + 2 <= MaxN
        /\ c.click_mode => c.max_mis \in {1, MaxMis}}

\* Short requests, on every machine and with every way into the loop.
SetupConfigs ==
    [base_url : {<<"h">>}, prefix : {<<"p">>}, num_width : {1}, base_num : {9},
     start_num : {9}, max_n : 0 .. MaxNSetup, max_mis : 0 .. 1,
     click_mode : BOOLEAN, auto_download : {FALSE}, exts : {<<ExtA>>},
     cookie : BOOLEAN, doj : BOOLEAN,
     delay_min : {Num(0)}, delay_max : {Num(0)}]

\* Short direct-fetch requests with every pair of delays.
DelayConfigs ==
    [base_url : {<<"h">>}, prefix : {<<"p">>}, num_width : {1}, base_num : {9},
     start_num : {9}, max_n : {MaxNSetup + 1}, max_mis : {MaxNSetup + 1},
     click_mode : {FALSE}, auto_download : {FALSE}, exts : {<<ExtA>>},
     cookie : {TRUE}, doj : {FALSE},
     delay_min : DelayValues, delay_max : DelayValues]

Scenarios ==
    (LoopConfigs \X {AllPresent}) \cup (SetupConfigs \X Hosts)
        \cup (DelayConfigs \X {AllPresent})

Terminal == {"finished", "closed"}

\* ---- messages of the log events
MsgCookies == "cookie(s) injected"
MsgChromiumMissing == "Chromium missing. Attempting install"
MsgInstalled == "Chromium installed. Launching"
MsgInstallFailed == "Browser auto-install failed"
MsgOpeningGate == "Opening browser to handle age gate"
MsgDojGate == "Checking for DOJ gate"
MsgDojBot == "Checking for DOJ bot-check button"
MsgBotClicked == "Bot verification clicked"
MsgDojAge == "Checking for DOJ age-gate button"
MsgAgeClicked == "Age confirmation clicked"
MsgGeneric == "Searching for generic gate buttons"
MsgCandidate == "Clicking candidate button"
MsgVisible == "Browser is visible. Please click the gate manually"
MsgCleared == "Gate cleared (detected manual click)"
MsgGatePassed == "Age gate passed. Keeping browser open"
MsgGateTimedOut == "Gate detection timed out, proceeding with scan anyway"
MsgGateSkipped == "Age gate check timed out, skipping"
MsgGateError == "Browser error during gate check"
MsgClickMode == "Click Mode active: Skipping separate age gate check"
MsgStarting == "Starting scan"
MsgClicking == "Clicking button"
MsgSkipSelector == "Skip selector"
MsgNoButton == "Skipped: No download button found"
MsgComplete == "Scan complete. Browser closed"
MsgNoPlaywright == "Playwright not installed, scanning without gate bypass"
MsgBrowserError == "Browser error, continuing anyway"

\* ---- events
CandidateUrl(num, ext) ==
    cfg.base_url \o cfg.prefix \o ZeroPad(num, cfg.num_width) \o ext

\* the URL a probe of identifier num with extension ext checks
ProbeUrl(num, ext) ==
    IF cfg.click_mode THEN cfg.prefix \o ZeroPad(num, cfg.num_width)
    ELSE CandidateUrl(num, ext)

RangeEvent ==
    [type |-> "range",
     first |-> CandidateUrl(cfg.start_num, cfg.exts[1]),
     last  |-> CandidateUrl(cfg.start_num + cfg.max_n - 1, cfg.exts[Len(cfg.exts)])]

CheckingEventStale(u) ==
    [type |-> "checking", url |-> u, found |-> 0, i |-> i, total |-> cfg.max_n]

CheckingEvent(u) ==
    [type |-> "checking", url |-> u, found |-> found, i |-> i, total |-> cfg.max_n]

HitEventSeed(u, n) ==
    [type |-> "hit", url |-> ProbeUrl(cfg.start_num, cfg.exts[1]), found |-> n]

HitEvent(u, n) == [type |-> "hit", url |-> u, found |-> n]

StoppedEvent == [type |-> "stopped", reason |-> cfg.max_mis]

DoneEventStale == [type |-> "done", found |-> 0]

DoneEvent == [type |-> "done", found |-> found]

ExtListAll == cfg.exts

\* ext_list_to_scan
ExtList == IF cfg.click_mode THEN <<Ext0>> ELSE cfg.exts

\* ---- the files of DOWNLOAD_DIR
\* str.replace(":", "_").replace("/", "_")
ReplaceSeps(s) ==
    [k \in 1 .. Len(s) |-> IF s[k] \in {":", "/"} THEN "_" ELSE s[k]]

\* fname of the direct-fetch download
FileName(prefix, num_str_pad, ext) ==
    LET fname == ReplaceSeps(prefix \o num_str_pad \o ext)
    IN  IF \E k \in 1 .. Len(fname) : fname[k] = "."
        THEN fname ELSE fname \o <<".", "b", "i", "n">>

\* DOWNLOAD_DIR with the file name holding body, last written by scan s
WriteFile(fs, name, body, s) ==
    {f \in fs : f.name # name} \cup {[name |-> name, body |-> body, by |-> s]}

\* what the file name holds, nothing when it is not there
FileBody(fs, name) ==
    IF \E f \in fs : f.name = name
    THEN (CHOOSE f \in fs : f.name = name).body
    ELSE <<>>

\* f.write(data) by scan s through a file it opened with "wb": data goes to
\* the start of the file, over what is there, and what lies behind it stays
OverwriteFile(fs, name, data, s) ==
    LET old == FileBody(fs, name)
    IN  IF data = <<>> THEN fs
        ELSE WriteFile(fs, name, data \o SubSeq(old, Len(data) + 1, Len(old)), s)

\* what a write that fails partway has put into the file: a proper part of
\* body, from its start (nothing when resp.body() raised)
Truncated(body) == {SubSeq(body, 1, n) : n \in 0 .. Len(body) - 1}

\* ---- the browser session
BrowserAfterExitLeak(b) == b

\* Leaving "with sync_playwright() as pw": the driver is stopped, and a
\* browser it launched ends with it.
BrowserAfterExit(b) == IF b = "open" THEN "closed" ELSE b

WithExit ==
    /\ pw' = IF pw = "on" THEN "stopped" ELSE pw
    /\ browser' = BrowserAfterExit(browser)

\* generate() runs on from a yield only while the event could be written
Runnable == pc \notin Terminal /\ (atYield => connected)

Yield(es) ==
    /\ events' = events \o es
    /\ atYield' = (es # <<>>)

loopvars == <<i, extIdx, found, consecutive, hit_this, resp, lastProbe, skipped, sleeps>>
gatevars == <<clicked, polls, gsel, clicks>>
envvars == <<cfg, host, connected, pvars, cvars, scans>>

InitScan ==
    /\ \E sc \in Scenarios : cfg = sc[1] /\ host = sc[2]
    /\ pc = "start"
    /\ events = <<>>
    /\ atYield = FALSE
    /\ connected = TRUE
    /\ pw = "off"
    /\ browser = "none"
    /\ clicked = FALSE
    /\ polls = 0
    /\ gsel = 0
    /\ clicks = {}
    /\ i = 0
    /\ extIdx = 1
    /\ found = 0
    /\ consecutive = 0
    /\ hit_this = FALSE
    /\ resp = NoResp
    /\ lastProbe = NoProbe
    /\ skipped = 0
    /\ sleeps = 0
    /\ url = <<>>
    /\ parseResp = NoResp
    /\ probeIn = NoResp
    /\ probeOut = NoResp
    /\ DownloadsIdle

\* generate(), up to the cookie injection
Begin ==
    /\ Runnable /\ pc = "start"
    /\ Yield(IF cfg.cookie THEN <<Log(MsgCookies)>> ELSE <<>>)
    /\ pc' = "import"
    /\ UNCHANGED <<pw, browser, gatevars, loopvars, envvars, files>>

\* the import of playwright and the entry of "with sync_playwright()"
EnterPlaywright ==
    /\ Runnable /\ pc = "import"
    /\ \/ /\ host.playwright
          /\ pc' = "launch"
          /\ pw' = "on"
       \/ /\ host.playwright
          /\ pc' = "exceptOuter"
          /\ UNCHANGED pw
       \/ /\ ~host.playwright
          /\ pc' = "exceptImport"
          /\ UNCHANGED pw
    /\ Yield(<<>>)
    /\ UNCHANGED <<browser, gatevars, loopvars, envvars, files>>

\* pw.chromium.launch and its except clause
Launch ==
    /\ Runnable /\ pc = "launch"
    /\ \/ /\ host.chromium
          /\ browser' = "open"
          /\ pc' = "context"
          /\ Yield(<<>>)
          /\ UNCHANGED pw
       \/ /\ ~host.chromium
          /\ pc' = "install"
          /\ Yield(<<Log(MsgChromiumMissing)>>)
          /\ UNCHANGED <<pw, browser>>
       \/ /\ host.chromium
          /\ WithExit
          /\ pc' = "exceptOuter"
          /\ Yield(<<>>)
    /\ UNCHANGED <<gatevars, loopvars, envvars, files>>

\* subprocess.run of "playwright install chromium"
Install ==
    /\ Runnable /\ pc = "install"
    /\ \/ /\ pc' = "relaunch"
          /\ Yield(<<Log(MsgInstalled)>>)
       \/ /\ pc' = "reraise"
          /\ Yield(<<Log(MsgInstallFailed)>>)
    /\ UNCHANGED <<pw, browser, gatevars, loopvars, envvars, files>>

\* the second pw.chromium.launch, inside the install's try
Relaunch ==
    /\ Runnable /\ pc = "relaunch"
    /\ \/ /\ browser' = "open"
          /\ pc' = "context"
          /\ Yield(<<>>)
       \/ /\ pc' = "reraise"
          /\ Yield(<<Log(MsgInstallFailed)>>)
          /\ UNCHANGED browser
    /\ UNCHANGED <<pw, gatevars, loopvars, envvars, files>>

\* raise install_err
Reraise ==
    /\ Runnable /\ pc = "reraise"
    /\ WithExit
    /\ pc' = "exceptOuter"
    /\ Yield(<<>>)
    /\ UNCHANGED <<gatevars, loopvars, envvars, files>>

GateRuns == ~cfg.cookie /\ ~cfg.click_mode

\* browser.new_context, ctx.new_page, page.add_init_script
Context ==
    /\ Runnable /\ pc = "context"
    /\ \/ /\ pc' = IF GateRuns THEN "gateGoto" ELSE "range"
          /\ Yield(IF GateRuns THEN <<Log(MsgOpeningGate)>>
                   ELSE IF cfg.click_mode THEN <<Log(MsgClickMode)>> ELSE <<>>)
          /\ UNCHANGED <<pw, browser>>
       \/ /\ WithExit
          /\ pc' = "exceptOuter"
          /\ Yield(<<>>)
    /\ UNCHANGED <<gatevars, loopvars, envvars, files>>

\* page.goto(seed_url) and wait_for_load_state, up to the next yield
GateGoto ==
    /\ Runnable /\ pc = "gateGoto"
    /\ \/ /\ cfg.doj
          /\ pc' = "gateDojGate"
          /\ Yield(<<Log(MsgDojGate)>>)
       \/ /\ ~cfg.doj
          /\ pc' = "gateGeneric"
          /\ Yield(<<Log(MsgGeneric)>>)
       \/ /\ pc' = "range"
          /\ Yield(<<Log(MsgGateSkipped)>>)
       \/ /\ pc' = "range"
          /\ Yield(<<Log(MsgGateError)>>)
    /\ UNCHANGED <<pw, browser, gatevars, loopvars, envvars, files>>

\* on from the "DOJ gate" yield: the "bot-check" log
GateDojGate ==
    /\ Runnable /\ pc = "gateDojGate"
    /\ pc' = "gateDojBot"
    /\ Yield(<<Log(MsgDojBot)>>)
    /\ UNCHANGED <<pw, browser, gatevars, loopvars, envvars, files>>

\* the loop over bot_selectors: a button is clicked and logged, or none is
\* and the "age-gate" log comes next
GateDojBot ==
    /\ Runnable /\ pc = "gateDojBot"
    /\ \/ /\ pc' = "gateBotClicked"
          /\ clicks' = clicks \cup {"bot"}
          /\ Yield(<<Log(MsgBotClicked)>>)
       \/ /\ pc' = "gateDojAge"
          /\ UNCHANGED clicks
          /\ Yield(<<Log(MsgDojAge)>>)
    /\ UNCHANGED <<pw, browser, clicked, polls, gsel, loopvars, envvars, files>>

\* on from the "bot verification clicked" yield: break, the "age-gate" log
GateBotClicked ==
    /\ Runnable /\ pc = "gateBotClicked"
    /\ pc' = "gateDojAge"
    /\ Yield(<<Log(MsgDojAge)>>)
    /\ UNCHANGED <<pw, browser, gatevars, loopvars, envvars, files>>

\* the loop over age_selectors, up to the click; without a click the
\* generic search starts
GateDojAge ==
    /\ Runnable /\ pc = "gateDojAge"
    /\ \/ /\ pc' = "gateClicked"
          /\ clicks' = clicks \cup {"age"}
          /\ Yield(<<Log(MsgAgeClicked)>>)
       \/ /\ pc' = "gateGeneric"
          /\ UNCHANGED clicks
          /\ Yield(<<Log(MsgGeneric)>>)
    /\ UNCHANGED <<pw, browser, clicked, polls, gsel, loopvars, envvars, files>>

\* on from the "age confirmation clicked" yield: the wait for networkidle,
\* clicked = True, break, and the "browser is visible" log
GateClicked ==
    /\ Runnable /\ pc = "gateClicked"
    /\ pc' = "gatePoll"
    /\ clicked' = TRUE
    /\ Yield(<<Log(MsgVisible)>>)
    /\ UNCHANGED <<pw, browser, polls, gsel, clicks, loopvars, envvars, files>>

\* the generic search from its first selector: the first element whose
\* label matches GATE_RE, under selector k, or no such element
GateGeneric ==
    /\ Runnable /\ pc = "gateGeneric"
    /\ \/ /\ \E k \in 1 .. NumGateSelectors : gsel' = k
          /\ pc' = "gateCandidate"
          /\ Yield(<<Log(MsgCandidate)>>)
       \/ /\ pc' = "gatePoll"
          /\ Yield(<<Log(MsgVisible)>>)
          /\ UNCHANGED gsel
    /\ UNCHANGED <<pw, browser, clicked, polls, clicks, loopvars, envvars, files>>

\* how el.click and wait_for_load_state of a candidate end: both return,
\* the click raises, or the click goes through and the wait for networkidle
\* times out
CandidateOutcomes == {"settled", "click_raises", "wait_raises"}

\* el.click and wait_for_load_state of the candidate: clicked = True when
\* both return; when one of them raises, "except Exception: pass" swallows
\* it with clicked still False, and the search goes on with the selectors
\* after gsel
GateCandidate ==
    /\ Runnable /\ pc = "gateCandidate"
    /\ \E o \in CandidateOutcomes :
         /\ clicks' = CASE o = "settled" -> clicks \cup {"candidate"}
                        [] o = "wait_raises" -> clicks \cup {"candidate_unsettled"}
                        [] o = "click_raises" -> clicks
         /\ IF o = "settled"
            THEN /\ pc' = "gatePoll"
                 /\ clicked' = TRUE
                 /\ gsel' = 0
                 /\ Yield(<<Log(MsgVisible)>>)
            ELSE /\ UNCHANGED clicked
                 /\ \/ /\ \E k \in gsel + 1 .. NumGateSelectors : gsel' = k
                       /\ pc' = "gateCandidate"
                       /\ Yield(<<Log(MsgCandidate)>>)
                    \/ /\ pc' = "gatePoll"
                       /\ gsel' = 0
                       /\ Yield(<<Log(MsgVisible)>>)
    /\ UNCHANGED <<pw, browser, polls, loopvars, envvars, files>>

\* one iteration of "for _ in range(20)" with clicked still False: the gate
\* is gone (clicked = True, the yield of the "cleared" log), or it is still
\* there and a second passes
GatePoll ==
    /\ Runnable /\ pc = "gatePoll" /\ ~clicked /\ polls < GatePollMax
    /\ \/ /\ pc' = "gateCleared"
          /\ clicked' = TRUE
          /\ UNCHANGED polls
          /\ Yield(<<Log(MsgCleared)>>)
       \/ /\ polls' = polls + 1
          /\ pc' = pc
          /\ UNCHANGED clicked
          /\ Yield(<<>>)
    /\ UNCHANGED <<pw, browser, gsel, clicks, loopvars, envvars, files>>

\* the poll loop breaks on clicked (at its first test, or from the "cleared"
\* yield), then "if clicked"
GatePassed ==
    /\ Runnable
    /\ pc = "gateCleared" \/ (pc = "gatePoll" /\ clicked)
    /\ pc' = "range"
    /\ polls' = 0
    /\ Yield(<<Log(MsgGatePassed)>>)
    /\ UNCHANGED <<pw, browser, clicked, gsel, clicks, loopvars, envvars, files>>

GateTimeoutFatal ==
    /\ Runnable /\ pc = "gatePoll" /\ ~clicked /\ polls = GatePollMax
    /\ pc' = "exceptOuter"
    /\ polls' = 0
    /\ WithExit
    /\ Yield(<<Log(MsgGateTimedOut)>>)
    /\ UNCHANGED <<clicked, gsel, clicks, loopvars, envvars, files>>

\* the poll loop ran out
GateTimeout ==
    /\ Runnable /\ pc = "gatePoll" /\ ~clicked /\ polls = GatePollMax
    /\ pc' = "range"
    /\ polls' = 0
    /\ Yield(<<Log(MsgGateTimedOut)>>)
    /\ UNCHANGED <<pw, browser, clicked, gsel, clicks, loopvars, envvars, files>>

\* the range preview
Range ==
    /\ Runnable /\ pc = "range"
    /\ Yield(<<RangeEvent>>)
    /\ pc' = "starting"
    /\ UNCHANGED <<pw, browser, gatevars, loopvars, envvars, files>>

\* on from the range event: the "starting scan" log
Starting ==
    /\ Runnable /\ pc = "starting"
    /\ Yield(<<Log(MsgStarting)>>)
    /\ pc' = "loop"
    /\ UNCHANGED <<pw, browser, gatevars, loopvars, envvars, files>>

\* on from the "starting scan" log: found = 0, consecutive = 0 and the
\* entry of "for i in range(max_n)"
LoopStart ==
    /\ Runnable /\ pc = "loop"
    /\ Yield(<<>>)
    /\ found' = 0
    /\ consecutive' = 0
    /\ i' = 0
    /\ extIdx' = 1
    /\ hit_this' = FALSE
    /\ pc' = IF cfg.max_n > 0 THEN "check" ELSE "close"
    /\ UNCHANGED <<pw, browser, gatevars, resp, lastProbe, skipped, sleeps, envvars,
                   files>>

\* yield the checking event of the current candidate
Check ==
    /\ Runnable /\ pc = "check"
    /\ Yield(<<CheckingEvent(ProbeUrl(cfg.start_num + i, ExtList[extIdx]))>>)
    /\ pc' = "probe"
    /\ lastProbe' = NoProbe
    /\ UNCHANGED <<pw, browser, gatevars, i, extIdx, found, consecutive, hit_this,
                   resp, skipped, sleeps, envvars, files>>

\* ---- the responses the scan is run against
ClOf(v) == [present |-> TRUE, value |-> v]
ScanResponses ==
    { TransportFailure,
      [kind |-> "response", status |-> 200, ct |-> CtVideoMp4, cl |-> ClOf(<<"1","0","0","0","0">>)],
      [kind |-> "response", status |-> 403, ct |-> CtTextHtml, cl |-> ClAbsent],
      [kind |-> "response", status |-> 404, ct |-> CtTextHtml, cl |-> ClAbsent] }

\* how the save of an accepted response ends: the body is written, open()
\* raises, or, after open() has created the file, resp.body() or the write
\* raises
SaveOutcomes == {"saved", "open_fails", "write_fails"}

\* download.suggested_filename, which the site chooses
SuggestedNames == {<<"d", ".", "z">>}

DirectRaised(out) == IF out.raised THEN "probe" ELSE "none"

FoundAfterLost(hit, f) == f

\* found += 1 on a hit
FoundAfter(hit, f) == IF hit THEN f + 1 ELSE f

\* The client a probe goes through: page.goto in click mode, page.request.get
\* in direct-fetch mode, both of the browser context; the requests session
\* that holds the injected cookies ("session") makes no request.
ProbeClient == "browser"

\* the response reaches the else branch of the checks of status 200 / 206
Accepted(r) ==
    /\ r.kind = "response"
    /\ r.status \in {200, 206}
    /\ ContentType(r) \notin HTML_CTYPES
    /\ SizeCheck(r.cl) = "pass"

\* save_path of the direct-fetch probe, within DOWNLOAD_DIR
SaveName ==
    FileName(cfg.prefix, ZeroPad(cfg.start_num + i, cfg.num_width), ExtList[extIdx])

\* DOWNLOAD_DIR after open(save_path, "wb"): the file is there and empty
OpenedFile == WriteFile(files, SaveName, <<>>, 0)

\* DOWNLOAD_DIR after f.write(resp.body()) wrote data: all of the body,
\* which is named by the URL it was fetched from, or a part of it
SaveBody == ProbeUrl(cfg.start_num + i, ExtList[extIdx])
WrittenFile(data) == OverwriteFile(files, SaveName, data, 0)

\* found += 1, hit_this = True and the yield of the hit event; lp is the
\* probe's record so far
HitCounted(lp) ==
    /\ found' = FoundAfter(TRUE, found)
    /\ hit_this' = TRUE
    /\ lastProbe' = [lp EXCEPT !.hit = TRUE]
    /\ Yield(<<HitEvent(ProbeUrl(cfg.start_num + i, ExtList[extIdx]),
                        FoundAfter(TRUE, found))>>)
    /\ pc' = "delay"

\* The direct-fetch probe from the checks of the status on, up to its next
\* yield or to the open file: the log of a skip, of a block or of the
\* failure, the hit event when nothing is logged first, or, with
\* auto_download, open(save_path, "wb"), which raises or leaves an empty
\* file that the body is still to be written to.
ClassifyStep(r, lp) ==
    \E opened \in BOOLEAN :
        LET out  == DirectProbe(r, i, cfg.auto_download, opened)
            rest == IF i < DebugLimit THEN Tail(out.logs) ELSE out.logs
            lp2  == [lp EXCEPT !.raised = DirectRaised(out)]
        IN  IF Accepted(r) /\ cfg.auto_download /\ opened
            THEN /\ files' = OpenedFile
                 /\ resp' = r
                 /\ pc' = "saving"
                 /\ lastProbe' = lp
                 /\ Yield(<<>>)
                 /\ UNCHANGED <<found, hit_this>>
            ELSE /\ (Accepted(r) /\ cfg.auto_download) \/ opened
                 /\ resp' = NoResp
                 /\ UNCHANGED files
                 /\ IF out.hit /\ rest = <<>>
                    THEN HitCounted(lp2)
                    ELSE /\ Yield(rest)
                         /\ pc' = IF out.hit THEN "countHit" ELSE "delay"
                         /\ lastProbe' = lp2
                         /\ UNCHANGED <<found, hit_this>>

\* f.write(resp.body()) and the "saved" log, or resp.body() or the write
\* raises and the file stays empty or holds a part of the body
SaveStep(r, lp) ==
    \E save \in {"saved", "write_fails"} :
        LET out  == DirectProbe(r, i, cfg.auto_download, save = "saved")
            rest == IF i < DebugLimit THEN Tail(out.logs) ELSE out.logs
            lp2  == [lp EXCEPT !.raised = DirectRaised(out)]
        IN  /\ IF save = "saved"
               THEN files' = WrittenFile(SaveBody)
               ELSE \E data \in Truncated(SaveBody) : files' = WrittenFile(data)
            /\ resp' = NoResp
            /\ IF out.hit /\ rest = <<>>
               THEN HitCounted(lp2)
               ELSE /\ Yield(rest)
                    /\ pc' = IF out.hit THEN "countHit" ELSE "delay"
                    /\ lastProbe' = lp2
                    /\ UNCHANGED <<found, hit_this>>

\* a selector is skipped: "except Exception as btn_err ... continue"; the
\* scans explored have at most MaxSelectorRaises such failures
SkipSelector(lp) ==
    /\ skipped < MaxSelectorRaises /\ lp.skips < NumSelectors
    /\ Yield(DebugLog(i, MsgSkipSelector))
    /\ pc' = "select"
    /\ lastProbe' = [lp EXCEPT !.raised = "selector", !.skips = @ + 1]
    /\ UNCHANGED <<found, hit_this, files>>

\* The button is activated: btn.click(), with auto_download inside
\* expect_download and followed by save_as and the "saved" log. Any of the
\* calls may raise, which skips the selector.
ClickStep(lp) ==
    \/ SkipSelector(lp)
    \/ /\ cfg.auto_download
       /\ \E name \in SuggestedNames :
            files' = WriteFile(files, name, ProbeUrl(cfg.start_num + i, ExtList[extIdx]), 0)
       /\ Yield(<<Log(MsgSaved)>>)
       /\ pc' = "countHit"
       /\ lastProbe' = lp
       /\ UNCHANGED <<found, hit_this>>
    \/ /\ ~cfg.auto_download
       /\ HitCounted(lp)
       /\ UNCHANGED files

\* The loop over the download selectors from the current one on, up to its
\* next yield: no selector that is left has a visible button, or the lookup
\* (query_selector, is_visible) of one raises, or one has a visible button.
SelectorSearch(lp) ==
    \/ /\ Yield(DebugLog(i, MsgNoButton))
       /\ pc' = "delay"
       /\ lastProbe' = lp
       /\ UNCHANGED <<found, hit_this, files>>
    \/ SkipSelector(lp)
    \/ /\ lp.skips < NumSelectors
       /\ IF i < DebugLimit
          THEN /\ Yield(<<Log(MsgClicking)>>)
               /\ pc' = "click"
               /\ lastProbe' = lp
               /\ UNCHANGED <<found, hit_this, files>>
          ELSE ClickStep(lp)

\* the try block of one probe, up to its first yield
Probe ==
    /\ Runnable /\ pc = "probe"
    /\ LET lp == [lastProbe EXCEPT !.via = ProbeClient]
       IN  \/ /\ ~cfg.click_mode
              /\ \E r \in ScanResponses :
                   IF r.kind = "failure"
                   THEN /\ Yield(DirectProbe(r, i, cfg.auto_download, TRUE).logs)
                        /\ pc' = "delay"
                        /\ lastProbe' = [lp EXCEPT !.raised = "probe"]
                        /\ UNCHANGED <<found, hit_this, resp, files>>
                   ELSE IF i < DebugLimit
                   THEN /\ Yield(<<Log(MsgDebug)>>)
                        /\ pc' = "classify"
                        /\ resp' = r
                        /\ lastProbe' = lp
                        /\ UNCHANGED <<found, hit_this, files>>
                   ELSE ClassifyStep(r, lp)
           \/ /\ cfg.click_mode
              /\ \/ /\ Yield(DebugLog(i, MsgReqFailure))
                    /\ pc' = "delay"
                    /\ lastProbe' = [lp EXCEPT !.raised = "probe"]
                    /\ UNCHANGED <<found, hit_this, files>>
                 \/ SelectorSearch(lp)
              /\ UNCHANGED resp
    /\ skipped' = skipped + lastProbe'.skips - lastProbe.skips
    /\ UNCHANGED <<pw, browser, gatevars, i, extIdx, consecutive, sleeps, envvars>>

\* on from the debug log: the checks of the status, the type and the size
Classify ==
    /\ Runnable /\ pc = "classify"
    /\ ClassifyStep(resp, lastProbe)
    /\ UNCHANGED <<pw, browser, gatevars, i, extIdx, consecutive, skipped, sleeps,
                   envvars>>

\* on from the opened file: the body is fetched and written
Save ==
    /\ Runnable /\ pc = "saving"
    /\ SaveStep(resp, lastProbe)
    /\ UNCHANGED <<pw, browser, gatevars, i, extIdx, consecutive, skipped, sleeps,
                   envvars>>

\* on from the "skip selector" log: continue with the next selector
Select ==
    /\ Runnable /\ pc = "select"
    /\ SelectorSearch(lastProbe)
    /\ skipped' = skipped + lastProbe'.skips - lastProbe.skips
    /\ UNCHANGED <<pw, browser, gatevars, i, extIdx, consecutive, resp, sleeps, envvars>>

\* on from the "clicking button" log
Click ==
    /\ Runnable /\ pc = "click"
    /\ ClickStep(lastProbe)
    /\ skipped' = skipped + lastProbe'.skips - lastProbe.skips
    /\ UNCHANGED <<pw, browser, gatevars, i, extIdx, consecutive, resp, sleeps, envvars>>

\* on from the "saved" log, or from the failure log of a response that was
\* counted all the same
CountHit ==
    /\ Runnable /\ pc = "countHit"
    /\ HitCounted(lastProbe)
    /\ UNCHANGED <<pw, browser, gatevars, i, extIdx, consecutive, resp, skipped, sleeps,
                   envvars, files>>

MissLimitReachedStrict(c) == c > cfg.max_mis

\* consecutive >= max_mis
MissLimitReached(c) == c >= cfg.max_mis

NextConsecutiveKeep(hit, c) == c + 1

\* consecutive after an identifier's probes
NextConsecutive(hit, c) == IF hit THEN 0 ELSE c + 1

\* the end of the body of "for i in range(max_n)"
EndIdentifier ==
    /\ consecutive' = NextConsecutive(hit_this, consecutive)
    /\ IF ~hit_this /\ MissLimitReached(NextConsecutive(hit_this, consecutive))
       THEN /\ Yield(<<StoppedEvent>>)
            /\ pc' = "close"
            /\ UNCHANGED <<i, extIdx, hit_this>>
       ELSE /\ Yield(<<>>)
            /\ IF i + 1 < cfg.max_n
               THEN /\ i' = i + 1
                    /\ extIdx' = 1
                    /\ hit_this' = FALSE
                    /\ pc' = "check"
               ELSE /\ pc' = "close"
                    /\ UNCHANGED <<i, extIdx, hit_this>>

\* random.uniform(a, b) is a + (b - a) * random(): a value between the two
\* bounds, whichever is the larger (the end point b may or may not be drawn,
\* depending on rounding), and NaN when one of them is
Uniform(a, b) ==
    IF a.nan \/ b.nan THEN {NaN}
    ELSE {Num(v) : v \in (IF a.v <= b.v THEN a.v ELSE b.v) ..
                         (IF a.v <= b.v THEN b.v ELSE a.v)}

\* time.sleep raises ValueError on a negative length and on NaN
SleepRaises(d) == d.nan \/ d.v < 0

\* time.sleep(random.uniform(delay_min, delay_max)) and the loops' tails;
\* the sleep stands outside the probe's try, so its ValueError leaves the
\* with block for the handler of generate()
Delay ==
    /\ Runnable /\ pc = "delay"
    /\ \E d \in Uniform(cfg.delay_min, cfg.delay_max) :
         IF SleepRaises(d)
         THEN /\ WithExit
              /\ pc' = "exceptOuter"
              /\ Yield(<<>>)
              /\ UNCHANGED <<i, extIdx, consecutive, hit_this, sleeps>>
         ELSE /\ sleeps' = sleeps + 1
              /\ UNCHANGED <<pw, browser>>
              /\ IF extIdx < Len(ExtList)
                 THEN /\ extIdx' = extIdx + 1
                      /\ pc' = "check"
                      /\ Yield(<<>>)
                      /\ UNCHANGED <<i, consecutive, hit_this>>
                 ELSE EndIdentifier
    /\ UNCHANGED <<gatevars, found, resp, lastProbe, skipped, envvars, files>>

\* browser.close() and the "scan complete" log; a failure of the close
\* leaves the with block for the handler of generate()
Close ==
    /\ Runnable /\ pc = "close"
    /\ \/ /\ browser' = "closed"
          /\ pc' = "done"
          /\ Yield(<<Log(MsgComplete)>>)
          /\ UNCHANGED pw
       \/ /\ WithExit
          /\ pc' = "exceptOuter"
          /\ Yield(<<>>)
    /\ UNCHANGED <<gatevars, loopvars, envvars, files>>

\* on from the "scan complete" log: the done event
Done ==
    /\ Runnable /\ pc = "done"
    /\ pc' = "return"
    /\ Yield(<<DoneEvent>>)
    /\ UNCHANGED <<pw, browser, gatevars, loopvars, envvars, files>>

\* the end of run_playwright_logic and of generate()
Return ==
    /\ Runnable /\ pc = "return"
    /\ WithExit
    /\ pc' = "finished"
    /\ Yield(<<>>)
    /\ UNCHANGED <<gatevars, loopvars, envvars, files>>

\* except ImportError
ExceptImport ==
    /\ Runnable /\ pc = "exceptImport"
    /\ Yield(<<Log(MsgNoPlaywright)>>)
    /\ pc' = "finished"
    /\ UNCHANGED <<pw, browser, gatevars, loopvars, envvars, files>>

\* except Exception as ex
ExceptOuter ==
    /\ Runnable /\ pc = "exceptOuter"
    /\ Yield(<<Log(MsgBrowserError)>>)
    /\ pc' = "finished"
    /\ UNCHANGED <<pw, browser, gatevars, loopvars, envvars, files>>

\* the client stops reading the stream
Disconnect ==
    /\ pc \notin Terminal
    /\ connected
    /\ connected' = FALSE
    /\ UNCHANGED <<cfg, host, pc, events, atYield, pw, browser, gatevars, loopvars,
                   pvars, cvars, dvars>>

\* The server cannot write the event and closes the generator: GeneratorExit
\* is raised at the yield and leaves every block, the with block among them.
GeneratorClose ==
    /\ pc \notin Terminal /\ pc # "gateCleared"
    /\ atYield /\ ~connected
    /\ WithExit
    /\ pc' = "closed"
    /\ UNCHANGED <<events, atYield, gatevars, loopvars, envvars, files>>

\* The same at the "cleared" yield, which stands in a try with a bare except:
\* GeneratorExit is swallowed there, the poll loop sleeps its second and
\* breaks, and the "passed" log is yielded into the close. The close of
\* run_playwright_logic fails on that yield, the failure lands in generate()'s
\* "except Exception", whose log is yielded into the close of generate() in
\* turn; run_playwright_logic, dropped by then, is finalized with a second
\* GeneratorExit, which leaves the with block.
GeneratorCloseIgnored ==
    /\ pc = "gateCleared"
    /\ atYield /\ ~connected
    /\ polls' = polls + 1
    /\ events' = events \o <<Log(MsgGatePassed), Log(MsgBrowserError)>>
    /\ WithExit
    /\ pc' = "closed"
    /\ UNCHANGED <<atYield, clicked, gsel, clicks, loopvars, envvars, files>>

Next ==
    \/ Begin \/ EnterPlaywright \/ Launch \/ Install \/ Relaunch \/ Reraise
    \/ Context \/ GateGoto \/ GateDojGate \/ GateDojBot \/ GateBotClicked
    \/ GateDojAge \/ GateClicked \/ GateGeneric \/ GateCandidate
    \/ GatePoll \/ GatePassed \/ GateTimeout
    \/ Range \/ Starting \/ LoopStart \/ Check
    \/ Probe \/ Classify \/ Save \/ Select \/ Click \/ CountHit
    \/ Delay \/ Close \/ Done \/ Return
    \/ ExceptImport \/ ExceptOuter \/ Disconnect \/ GeneratorClose
    \/ GeneratorCloseIgnored

Spec == InitScan /\ [][Next]_vars

\* ------------------------------------------------------------ one probe
\* One direct-fetch probe of a scan of h + p + number + .m from 9 on, at
\* loop index idx, followed from the request to the end of its try block.
ProbeInputs ==
    [r : Responses, idx : {0, DebugLimit}, auto_download : BOOLEAN, save : SaveOutcomes]

ProbeNumber == ZeroPad(9 + probeIn.idx, 1)

\* fname and url of the probe
ProbeFile == FileName(<<"p">>, ProbeNumber, ExtA)
ProbeBody == <<"h">> \o <<"p">> \o ProbeNumber \o ExtA

\* what the whole probe comes to
ProbeSummary ==
    DirectProbe(probeIn.r, probeIn.idx, probeIn.auto_download, probeIn.save = "saved")

ProbeAt(at, hit, raised, logs) ==
    [at |-> at, hit |-> hit, raised |-> raised, logs |-> logs]

ProbeDone == ProbeAt("done", ProbeSummary.hit, ProbeSummary.raised, ProbeSummary.logs)

InitClassify ==
    /\ probeIn \in ProbeInputs
    /\ probeOut = NoResp
    /\ url = <<>>
    /\ parseResp = NoResp
    /\ ScanIdle
    /\ DownloadsIdle

\* the checks of the status, the type and the size, up to the next yield,
\* to the opened file or to the end of the probe
ClassifyChecks ==
    IF Accepted(probeIn.r) /\ probeIn.auto_download /\ probeIn.save # "open_fails"
    THEN /\ files' = WriteFile(files, ProbeFile, <<>>, 0)
         /\ probeOut' = ProbeAt("saving", FALSE, FALSE, DebugLog(probeIn.idx, MsgDebug))
    ELSE /\ probeOut' = ProbeDone
         /\ UNCHANGED files

\* page.request.get and, at the first identifiers, the debug log
ClassifyProbe ==
    /\ probeOut = NoResp
    /\ IF probeIn.r.kind = "failure"
       THEN probeOut' = ProbeDone /\ UNCHANGED files
       ELSE IF probeIn.idx < DebugLimit
       THEN /\ probeOut' = ProbeAt("classify", FALSE, FALSE, <<Log(MsgDebug)>>)
            /\ UNCHANGED files
       ELSE ClassifyChecks
    /\ UNCHANGED <<probeIn, pvars, svars, scans>>

\* on from the debug log
ClassifyResponse ==
    /\ probeOut # NoResp /\ probeOut.at = "classify"
    /\ ClassifyChecks
    /\ UNCHANGED <<probeIn, pvars, svars, scans>>

\* f.write(resp.body()) and the "saved" log, or the failure of one of
\* them, which leaves the file empty or with a part of the body
ClassifySave ==
    /\ probeOut # NoResp /\ probeOut.at = "saving"
    /\ IF probeIn.save = "saved"
       THEN /\ files' = OverwriteFile(files, ProbeFile, ProbeBody, 0)
            /\ probeOut' = ProbeAt("countHit", FALSE, FALSE, ProbeSummary.logs)
       ELSE /\ probeOut' = ProbeDone
            /\ \E data \in Truncated(ProbeBody) :
                 files' = OverwriteFile(files, ProbeFile, data, 0)
    /\ UNCHANGED <<probeIn, pvars, svars, scans>>

\* on from the "saved" log: the hit is counted
ClassifyCount ==
    /\ probeOut # NoResp /\ probeOut.at = "countHit"
    /\ probeOut' = ProbeDone
    /\ UNCHANGED <<probeIn, pvars, svars, dvars>>

NextClassify == ClassifyProbe \/ ClassifyResponse \/ ClassifySave \/ ClassifyCount

SpecClassify == InitClassify /\ [][NextClassify]_vars

\* ------------------------------------------------------------ properties
\* positions of the events of type t
Kinds(t) == {k \in 1 .. Len(events) : events[k].type = t}
Count(t) == Cardinality(Kinds(t))
TerminalEvents == Kinds("stopped") \cup Kinds("done")
Logged(m) == \E k \in 1 .. Len(events) : events[k] = Log(m)
IsChecking(e) == e.type = "checking"
Checkings == SelectSeq(events, IsChecking)

\* identifier t was probed; one of its probes was a hit
IdProbed(t) == \E k \in Kinds("checking") : events[k].i = t
IdHit(t) ==
    \E k \in Kinds("hit"), x \in 1 .. Len(ExtList) :
        events[k].url = ProbeUrl(cfg.start_num + t, ExtList[x])

\* C1: a scan's stream holds exactly one terminal event (stopped or done),
\* never both and never none, and no event follows it.
C1_OneTerminalEvent ==
    /\ \A k \in TerminalEvents : k = Len(events)
    /\ pc = "finished" => Cardinality(TerminalEvents) = 1

\* C2: once the scan has ended, on any path, a browser session that was
\* opened is no longer active.
C2_SessionReleased == pc \in Terminal => (browser # "open" /\ pw # "on")

\* a scan that ended by an exception after the browser was launched
C2_Witness ==
    /\ pc = "finished" /\ browser = "closed" /\ pw = "stopped"
    /\ Logged(MsgBrowserError) /\ Count("done") = 0

\* the scan ran its loop and left it, and no exception escaped to the
\* handler of generate() (a failing browser.close(), a sleep that raises)
LoopLeft ==
    /\ pc \in {"close", "done", "return", "finished"}
    /\ Count("range") = 1
    /\ ~Logged(MsgBrowserError)

\* the probes so far all missed, one probe per identifier, 1 <= max_mis <= max_n
C3_Pre ==
    /\ pc # "idle"
    /\ Len(ExtList) = 1
    /\ 1 <= cfg.max_mis /\ cfg.max_mis <= cfg.max_n
    /\ Kinds("hit") = {}

\* C3: with a probe that always misses and one extension, the scan emits
\* exactly max_mis checking events, for start_num .. start_num + max_mis - 1
\* in order, then one stopped event citing max_mis, and no checking or hit
\* event after it.
C3_DeterministicEarlyStop ==
    /\ C3_Pre =>
         /\ Len(Checkings) <= cfg.max_mis
         /\ \A k \in 1 .. Len(Checkings) :
              /\ Checkings[k].i = k - 1
              /\ Checkings[k].url = ProbeUrl(cfg.start_num + k - 1, ExtList[1])
    /\ C3_Pre /\ LoopLeft =>
         /\ Len(Checkings) = cfg.max_mis
         /\ Count("stopped") = 1
         /\ \A s \in Kinds("stopped") :
              /\ events[s].reason = cfg.max_mis
              /\ \A k \in Kinds("checking") : k < s
    /\ pc # "idle" =>
         \A s \in Kinds("stopped"), k \in 1 .. Len(events) :
              k > s => events[k].type \notin {"checking", "hit"}

\* an always-missing scan stopped after two misses out of four identifiers
C3_Witness ==
    /\ C3_Pre /\ pc = "finished"
    /\ cfg.max_mis = 2 /\ cfg.max_n = 4
    /\ Len(Checkings) = 2 /\ Count("stopped") = 1

\* the scan ran its loop and came to its end
C4_Ended == LoopLeft /\ pc \in {"return", "finished"}

\* max_mis consecutive identifiers that were probed and all missed
C4_MissRun ==
    \E j \in 0 .. cfg.max_n - cfg.max_mis :
        \A t \in j .. j + cfg.max_mis - 1 : IdProbed(t) /\ ~IdHit(t)

\* C4: when no run of max_mis consecutive identifiers all miss, the scan
\* probes all max_n identifiers and ends with done and without stopped, and
\* done.found is the number of hit events.
C4_CompletionAccounting ==
    /\ LoopLeft /\ ~C4_MissRun =>
         /\ Count("stopped") = 0
         /\ \A t \in 0 .. cfg.max_n - 1 : IdProbed(t)
    /\ C4_Ended =>
         /\ Count("done") = 1
         /\ events[Len(events)].type = "done"
         /\ events[Len(events)].found = Count("hit")

\* four identifiers, hits at two of them, no run of four misses: done, found = 2
C4_Witness ==
    /\ pc = "finished" /\ cfg.max_n = 4 /\ cfg.max_mis = 4
    /\ Count("hit") = 2 /\ Count("stopped") = 0
    /\ IdHit(2) /\ ~IdHit(0)
    /\ events[Len(events)] = [type |-> "done", found |-> 2]

\* the hit condition of the classification table
C5_TableHit(r) ==
    /\ r.kind = "response"
    /\ r.status \in {200, 206}
    /\ ContentType(r) \notin HTML_CTYPES
    /\ \/ ~r.cl.present
       \/ IntOk(r.cl.value) /\ IntOf(Strip(r.cl.value)) >= SizeFloor

\* C5: a probe response counts as a hit if and only if its status is 200 or
\* 206, its content type is not HTML-like and its content length is absent
\* or at least 10000.
C5_HitIffClassified ==
    probeOut # NoResp /\ probeOut.at = "done" =>
        (probeOut.hit <=> C5_TableHit(probeIn.r))

HasAsciiDigit(s) == \E k \in 1 .. Len(s) : s[k] \in AsciiDigits
HasDigit(s) == \E k \in 1 .. Len(s) : IsDigit(s[k])

\* C6: for a URL with a decimal digit, prefix + zeroPad(baseNum, numWidth) +
\* suffix is the URL, the digit run is the last one (no digit in the suffix,
\* none at the end of the prefix), and parsing the reconstruction gives the
\* same pattern.
C6_RoundTrip ==
    parseResp.status = 200 /\ HasAsciiDigit(Strip(url)) =>
        LET r   == parseResp
            rec == r.prefix \o ZeroPad(r.base_num, r.num_width) \o r.suffix
        IN  /\ rec = Strip(url)
            /\ ~HasDigit(r.suffix)
            /\ r.prefix # <<>> => ~IsDigit(r.prefix[Len(r.prefix)])
            /\ parse(rec) = r

\* C7: extraction fails with the no-numeric-sequence error exactly when the
\* non-empty URL has no decimal digit, succeeds when it has one, and a failure
\* carries no pattern field and starts no scan.
C7_FailsIffNoDigit ==
    parseResp # NoResp /\ Strip(url) # <<>> =>
        /\ ~HasDigit(Strip(url)) => parseResp = [status |-> 400, error |-> ErrNoNumber]
        /\ HasAsciiDigit(Strip(url)) => parseResp.status = 200
        /\ parseResp.status = 400 =>
             DOMAIN parseResp = {"status", "error"} /\ events = <<>>

\* the positions of a probe, from the request to its last yield
ProbePcs == {"probe", "classify", "saving", "select", "click", "countHit"}

\* a probe in which anything raised is a miss, and a delay was taken after
\* every probe
C8_State ==
    /\ lastProbe.raised # "none" => ~lastProbe.hit
    /\ pc \in {"check", "close"} => sleeps = Count("checking")
    /\ pc = "close" /\ Count("stopped") = 0 => i + 1 >= cfg.max_n

\* a probe ends at the delay, and the loop goes on from the delay that
\* follows a failed probe
C8_Step ==
    /\ pc \in ProbePcs => pc' \in (ProbePcs \cup {"delay", "closed"})
    /\ pc = "delay" /\ lastProbe.raised # "none" =>
         pc' \in {"delay", "check", "close", "closed"}

\* C8: a failure raised while probing one candidate never aborts the scan
\* loop: the probe is a miss, the delay is taken, and the loop goes on to
\* the next extension or identifier until max_n or the miss limit.
C8_FaultIsolation == []C8_State /\ [][C8_Step]_vars

\* C9: when an exception escapes the browser/scan logic, a log event is
\* emitted and the stream ends with a stopped terminal event.
C9_FatalEndsStopped ==
    pc = "finished" /\ Logged(MsgBrowserError) =>
        Count("stopped") = 1 /\ Count("done") = 0

\* C10: without the automation engine, or without its binary when the
\* install fails, the scan warns and goes on in direct-fetch mode: a range
\* event, checking events and a terminal event are produced.
C10_DegradesToDirectFetch ==
    pc = "finished" /\ (~host.playwright \/ Logged(MsgInstallFailed)) =>
        /\ Logged(MsgNoPlaywright) \/ Logged(MsgInstallFailed)
        /\ Count("range") = 1
        /\ cfg.max_n > 0 => Count("checking") >= 1
        /\ Cardinality(TerminalEvents) = 1

\* C11: once the caller has disconnected, the scan starts no further probe,
\* gate poll or politeness delay, and it ends with the browser session
\* released.
C11_Cancellation ==
    [][~connected =>
          /\ sleeps' = sleeps
          /\ polls' <= polls
          /\ pc' # "probe"
          /\ pc' \in Terminal => browser' # "open"]_vars

\* the last checking event before position k (0 when there is none)
LastCheckingBefore(k) ==
    LET before == {j \in Kinds("checking") : j < k}
    IN  IF before = {} THEN 0 ELSE CHOOSE j \in before : \A l \in before : l <= j

IsProbeEvent(e) == e.type \in {"checking", "hit"}

\* the checking and hit events of the stream, in order
ProbeEvents == SelectSeq(events, IsProbeEvent)

\* C12: a probe is immediately preceded by the checking event of its URL,
\* with 0 <= i < max_n, i non-decreasing over the stream and total = max_n;
\* a hit event follows the checking event of the same URL with no other
\* checking event in between, and a probe counted as a hit has exactly one.
C12_EventOrdering ==
    LET pe == ProbeEvents
    IN  /\ \A k \in 1 .. Len(pe) :
             IF pe[k].type = "checking"
             THEN /\ pe[k].i >= 0 /\ pe[k].i < cfg.max_n
                  /\ pe[k].total = cfg.max_n
                  /\ k > 1 /\ pe[k - 1].type = "checking" => pe[k - 1].i <= pe[k].i
                  /\ k > 2 /\ pe[k - 1].type = "hit" => pe[k - 2].i <= pe[k].i
             ELSE /\ k > 1
                  /\ pe[k - 1].type = "checking"
                  /\ pe[k - 1].url = pe[k].url
        /\ pc = "probe" =>
             /\ Len(events) > 0
             /\ events[Len(events)] =
                  CheckingEvent(ProbeUrl(cfg.start_num + i, ExtList[extIdx]))
        /\ pc = "delay" =>
             /\ Len(pe) > 0
             /\ (pe[Len(pe)].type = "hit") = lastProbe.hit

\* the second identifier's probe was a hit, after a miss of the first
C12_Witness ==
    /\ pc = "delay" /\ i = 1 /\ lastProbe.hit
    /\ Count("checking") = 2 /\ Count("hit") = 1

\* C13: a scan that reaches the probing phase has exactly one range event,
\* before every checking event; range.first is the URL of the first checking
\* event and range.last the URL of the final checking event of a scan that
\* runs to completion, in direct-fetch and in click mode.
C13_RangeMatchesProbes ==
    /\ Count("checking") > 0 =>
         /\ Count("range") = 1
         /\ \A r \in Kinds("range"), k \in Kinds("checking") :
              /\ r < k
              /\ LastCheckingBefore(k) = 0 => events[r].first = events[k].url
    /\ pc = "finished" /\ Count("done") = 1 /\ Count("stopped") = 0
         /\ Count("checking") > 0 =>
         \A r \in Kinds("range") :
              events[r].last = events[LastCheckingBefore(Len(events) + 1)].url

\* ------------------------------------------------------------ downloads
\* Two /scan requests served at the same time, in direct-fetch mode with
\* auto_download: what they write into DOWNLOAD_DIR.
MaxDlN == 2

ScanIds == {1, 2}

DlConfigs ==
    [base_url : {<<"h">>, <<"g">>}, prefix : {<<"a">>, <<"a", "/">>, <<"a", ":">>},
     num_width : {1}, start_num : {9}, max_n : {MaxDlN}, ext : {ExtA}]

\* the request of the first scan; the second one is any of DlConfigs
DlFirstConfig ==
    [base_url |-> <<"h">>, prefix |-> <<"a", "/">>, num_width |-> 1, start_num |-> 9,
     max_n |-> MaxDlN, ext |-> ExtA]

\* url of the direct-fetch probe of scan s
DlUrl(s) ==
    scans[s].cfg.base_url \o scans[s].cfg.prefix
        \o ZeroPad(scans[s].cfg.start_num + scans[s].i, scans[s].cfg.num_width)
        \o scans[s].cfg.ext

DlFileName(s) ==
    FileName(scans[s].cfg.prefix,
             ZeroPad(scans[s].cfg.start_num + scans[s].i, scans[s].cfg.num_width),
             scans[s].cfg.ext)

InitDownloads ==
    /\ scans \in [ScanIds -> [cfg : DlConfigs, i : {0}, saving : {"no"}]]
    /\ scans[1].cfg = DlFirstConfig
    /\ files = {}
    /\ url = <<>>
    /\ parseResp = NoResp
    /\ probeIn = NoResp
    /\ probeOut = NoResp
    /\ ScanIdle

\* scan s probes its current candidate, the response is accepted as a file
\* and the file is opened for writing, which empties it
DownloadOpen(s) ==
    /\ scans[s].i < scans[s].cfg.max_n /\ scans[s].saving = "no"
    /\ files' = WriteFile(files, DlFileName(s), <<>>, s)
    /\ scans' = [scans EXCEPT ![s].saving = "open"]
    /\ UNCHANGED <<pvars, cvars, svars>>

\* the body is fetched and written through the file scan s opened
DownloadWrite(s) ==
    /\ scans[s].saving = "open"
    /\ files' = OverwriteFile(files, DlFileName(s), DlUrl(s), s)
    /\ scans' = [scans EXCEPT ![s].saving = "written"]
    /\ UNCHANGED <<pvars, cvars, svars>>

\* on from the written file: the "saved" log, the hit is counted, the delay,
\* and the loop of scan s goes on to its next candidate
DownloadHit(s) ==
    /\ scans[s].saving = "written"
    /\ scans' = [scans EXCEPT ![s].i = @ + 1, ![s].saving = "no"]
    /\ UNCHANGED <<files, pvars, cvars, svars>>

\* with the file open, resp.body() or the write raises: a part of the
\* body, or nothing, has been written, the file is closed, and scan s is at
\* the yield of the failure log
DownloadFail(s) ==
    /\ scans[s].saving = "open"
    /\ \E data \in Truncated(DlUrl(s)) :
         files' = OverwriteFile(files, DlFileName(s), data, s)
    /\ scans' = [scans EXCEPT ![s].saving = "failed"]
    /\ UNCHANGED <<pvars, cvars, svars>>

\* the probe of scan s is a miss, the response being not a file or open()
\* or the save having raised: after the delay the loop of scan s goes on to
\* its next candidate
DownloadMiss(s) ==
    /\ scans[s].i < scans[s].cfg.max_n
    /\ scans[s].saving \in {"no", "failed"}
    /\ scans' = [scans EXCEPT ![s].i = @ + 1, ![s].saving = "no"]
    /\ UNCHANGED <<files, pvars, cvars, svars>>

NextDownloads ==
    \/ \E s \in ScanIds : DownloadOpen(s)
    \/ \E s \in ScanIds : DownloadWrite(s)
    \/ \E s \in ScanIds : DownloadHit(s)
    \/ \E s \in ScanIds : DownloadFail(s)
    \/ \E s \in ScanIds : DownloadMiss(s)

SpecDownloads == InitDownloads /\ [][NextDownloads]_vars

\* C14: concurrent scans never mutate state of one another: a download file
\* written by one scan is never written or overwritten by the other.
C14_ScansIndependent ==
    [][\A f \in files, g \in files' : f.name = g.name => f.by = g.by]_vars

\* C15: on both ways out of the loop, the early stop and the completion of
\* all max_n identifiers, the done event is the last event of the stream and
\* its found is the number of hit events of the scan.
C15_FinalSummary ==
    LoopLeft /\ pc \in {"return", "finished"} =>
        /\ Count("stopped") = 1 \/ (Count("stopped") = 0 /\ i + 1 >= cfg.max_n)
        /\ Kinds("done") = {Len(events)}
        /\ events[Len(events)] = [type |-> "done", found |-> Count("hit")]

\* an early stop after a hit: stopped, and then done with found = 1
C15_Witness ==
    /\ pc = "finished" /\ Count("stopped") = 1 /\ Count("hit") = 1
    /\ i + 1 < cfg.max_n
    /\ events[Len(events)].type = "done"

\* the identifiers whose extensions have all been probed
Processed ==
    IF Count("checking") = 0 THEN 0
    ELSE IF pc = "check" /\ extIdx = 1 THEN i
    ELSE i + 1

\* the length of the run of identifiers without a hit that ends at n - 1
TrailingMisses(n) ==
    LET runs == {m \in 0 .. n : \A t \in n - m .. n - 1 : ~IdHit(t)}
    IN  CHOOSE m \in runs : \A l \in runs : l <= m

\* C16: after an identifier is fully processed, consecutive is 0 when one of
\* its extension probes was a hit and one more than before otherwise: it
\* counts identifiers, not probes, whatever the number of extensions.
C16_MissesPerIdentifier ==
    (pc = "check" /\ extIdx = 1) \/ LoopLeft =>
        consecutive = TrailingMisses(Processed)

\* two extensions: identifier 0 hit on one extension only, both probes of
\* identifier 1 missed, and consecutive is 1
C16_Witness ==
    /\ pc = "close" /\ Len(cfg.exts) = 2 /\ ~cfg.click_mode /\ i = 1
    /\ Count("checking") = 4 /\ Count("hit") = 1 /\ IdHit(0)
    /\ Count("stopped") = 0 /\ consecutive = 1

\* C17: for every max_mis >= 0 no checking event is emitted, and no probe
\* made, while consecutive >= max_mis; once consecutive >= max_mis holds the
\* scan is stopped with the reason naming max_mis.
C17_NoProbeAtThreshold ==
    /\ pc \in ({"check", "delay"} \cup ProbePcs) => consecutive < cfg.max_mis
    /\ pc \in {"return", "finished"} /\ Count("checking") > 0
         /\ consecutive >= cfg.max_mis =>
         \E k \in Kinds("stopped") : events[k].reason = cfg.max_mis

GatePcs == {"gateGoto", "gateDojGate", "gateDojBot", "gateBotClicked", "gateDojAge",
            "gateGeneric", "gateCandidate", "gateClicked", "gatePoll", "gateCleared"}

\* how the gate check ended, by its logs
GateAutomated == Logged(MsgGatePassed) /\ ~Logged(MsgCleared)
GateManual == Logged(MsgCleared) /\ Logged(MsgGatePassed)
GateTimedOut == Logged(MsgGateTimedOut)
GateFailed == Logged(MsgGateSkipped) \/ Logged(MsgGateError)

GateEnded(o) ==
    \/ o = "automated" /\ GateAutomated
    \/ o = "manual" /\ GateManual
    \/ o = "timeout" /\ GateTimedOut
    \/ o = "failed" /\ GateFailed

\* the outcomes the gate phase is stated to have, and the ones it has
StatedGateOutcomes == {"automated", "manual", "timeout"}
GateOutcomes == StatedGateOutcomes \cup {"failed"}

\* a step of the manual-clearance poll: an iteration that sleeps, or the
\* one that finds the gate gone
PollStep == polls' > polls \/ (pc # "gateCleared" /\ pc' = "gateCleared")

\* the clicks after which the code sets clicked = True
FlaggedClicks == {"age", "candidate"}

\* the gate check is entered only without cookie and with click mode off,
\* it never ends in the scan's error handler, and the scan goes on to the
\* range event and to the probes with the browser open
C18_NonFatal ==
    /\ pc \in GatePcs => GateRuns /\ browser = "open" /\ pw = "on"
    /\ polls <= GatePollMax
    /\ pc = "range" /\ GateRuns => browser = "open" /\ pw = "on"
    /\ pc \in ({"starting", "loop", "check", "delay"} \cup ProbePcs) =>
         Count("range") = 1 /\ browser = "open" /\ pw = "on"
    /\ Logged(MsgGatePassed) \/ Logged(MsgGateTimedOut) => Logged(MsgVisible)

C18_NonFatalStep == pc \in GatePcs => pc' \in (GatePcs \cup {"range", "closed"})

\* C18 as stated: the gate check is bounded and non-fatal, its poll runs at
\* most 20 times and only while no automated click has gone through, and it
\* ends in exactly one of automated click, manual clearance and timeout.
C18_GateAsStated ==
    /\ [](/\ C18_NonFatal
          /\ pc = "range" /\ GateRuns =>
               Cardinality({o \in StatedGateOutcomes : GateEnded(o)}) = 1)
    /\ [][/\ C18_NonFatalStep
          /\ PollStep => polls < GatePollMax /\ clicks = {}]_vars

\* C18, amended: the gate check runs only without cookie and with click
\* mode off; its poll runs at most 20 times and only while neither the age
\* button nor a generic candidate, with its wait for networkidle, has been
\* clicked (a click of the bot-check button, and a candidate's click whose
\* wait timed out, are followed by the poll); the check ends in exactly one
\* way (automated click, manual clearance, timeout, or a failure of the
\* check itself, which is logged and skips the poll), never in the scan's
\* error handler, and the scan then yields the range event and probes with
\* the browser open.
C18_GateBoundedNonFatal ==
    /\ [](/\ C18_NonFatal
          /\ pc = "range" /\ GateRuns =>
               Cardinality({o \in GateOutcomes : GateEnded(o)}) = 1
          /\ GateFailed => ~Logged(MsgVisible) /\ polls = 0 /\ clicks = {})
    /\ [][/\ C18_NonFatalStep
          /\ PollStep => polls < GatePollMax /\ clicks \cap FlaggedClicks = {}]_vars

\* a candidate was clicked, its wait timed out, the poll ran out after 20
\* iterations and the scan went on to probe
C18_Witness ==
    /\ GateRuns /\ GateTimedOut /\ ~GateFailed /\ ~Logged(MsgGatePassed)
    /\ clicks = {"candidate_unsettled"} /\ ~clicked
    /\ pc = "probe" /\ browser = "open" /\ Count("range") = 1

\* C19: in direct-fetch mode a probe goes through the browser context if and
\* only if the gate check ran for this scan; when a cookie was supplied the
\* probe goes through the plain HTTP session that holds the injected cookies.
C19_PrevailingClient ==
    pc = "delay" /\ ~cfg.click_mode =>
        /\ lastProbe.via = "browser" <=> Logged(MsgOpeningGate)
        /\ cfg.cookie => lastProbe.via = "session"

\* probes per identifier the claim expects
ProbesPerId == IF cfg.click_mode THEN 1 ELSE Len(cfg.exts)

\* C20: click mode makes one probe, one checking event, per identifier,
\* whatever the extensions; direct-fetch mode probes every extension of a
\* processed identifier in the configured order, one checking event each, so
\* n processed identifiers give n * |extensions| checking events.
C20_ProbesPerIdentifier ==
    LET cs == Checkings
    IN  /\ \A k \in 1 .. Len(cs) :
             /\ cs[k].i = (k - 1) \div ProbesPerId
             /\ cs[k].url =
                  ProbeUrl(cfg.start_num + ((k - 1) \div ProbesPerId),
                           cfg.exts[((k - 1) % ProbesPerId) + 1])
        /\ (pc = "check" /\ extIdx = 1) \/ LoopLeft =>
             Len(cs) = Processed * ProbesPerId

\* direct-fetch mode, two extensions, two identifiers: four checking events
C20_Witness ==
    /\ pc = "finished" /\ ~cfg.click_mode /\ Len(cfg.exts) = 2
    /\ Processed = 2 /\ Count("checking") = 4 /\ Count("done") = 1

\* C21: at every identifier index, a direct-fetch probe that ends in a
\* transport failure or in a status other than 200/206 yields at least one
\* log event.
C21_MissIsLogged ==
    probeOut # NoResp /\ probeOut.at = "done"
        /\ (probeIn.r.kind = "failure" \/ probeIn.r.status \notin {200, 206}) =>
        probeOut.logs # <<>>

C22_Counts ==
    LET pe == ProbeEvents
        HitsBefore(k) == Cardinality({j \in 1 .. k - 1 : pe[j].type = "hit"})
    IN  /\ \A k \in 1 .. Len(pe) :
             pe[k].found = IF pe[k].type = "hit" THEN HitsBefore(k) + 1
                           ELSE HitsBefore(k)
        /\ found = HitsBefore(Len(pe) + 1)
        /\ found <= Len(pe) - found

\* C22: the k-th hit event carries found = k, a checking event carries the
\* number of hit events before it, and found never decreases and never
\* exceeds the number of probes issued.
C22_HitCounter == []C22_Counts /\ [][found' >= found]_vars

\* two hits, and the checking event of the third identifier carries found = 2
C22_Witness ==
    /\ pc = "probe" /\ i = 2 /\ found = 2 /\ Count("hit") = 2
    /\ events[Len(events)].type = "checking" /\ events[Len(events)].found = 2

\* C23: auto_download does not change the result of a probe, and so of the
\* scan: against the same response, with auto_download on (the save
\* succeeding or failing) and off, the probe is a hit in both runs or in
\* neither; saving only adds log events.
C23_AutoDownloadNeutral ==
    probeOut # NoResp /\ probeOut.at = "done" =>
        LET other == DirectProbe(probeIn.r, probeIn.idx, ~probeIn.auto_download,
                                 probeIn.save = "saved")
        IN  /\ probeOut.hit = other.hit
            /\ probeOut.raised = other.raised

=============================================================================
